---- MODULE Spec2Model ----
(***************************************************************************)
(* State-machine model of GlobalNotifierBase (src/src/global_notifier.cpp, *)
(* header in src/unnamed/part_000) together with the notification pipeline *)
(* (pause / resume / has_pending / realm_changed) that the tests in        *)
(* src/tests/global_notifier.cpp drive on top of it.                       *)
(*                                                                         *)
(* The discovery loop, the registry and the accessors are translated from  *)
(* the source.  The pipeline's code is not part of the sources at hand; it *)
(* is modelled from section 4.4 of the specification.                      *)
(***************************************************************************)
EXTENDS Integers, Sequences, FiniteSets, TLC

\* ------------------------------------------------------------------ bounds
MaxRows == 2          \* rows the admin Realm's RealmFile table may grow to
MaxVersion == 2       \* transactions committed to one regular Realm
MaxFailures == 1      \* throwing steps inside on_admin_change's try block
MaxStarts == 2        \* calls of start() that are counted

\* ------------------------------------------------------------- value sets
Ids == {"id", "id2"}            \* RealmFile.id values
\* RealmFile.path of the Realm with a given id (a Realm's record is immutable)
PathOf(id) == IF id = "id" THEN "/name" ELSE "/name2"
Idents == 0..(MaxRows - 1)      \* listen_ident values that can be handed out

VARIABLES
    \* GlobalNotifierBase members
    m_admin_realm_sync_session, \* "null" until start() opened the admin session
    m_known_realms,             \* set of RealmFile ids already looked at
    m_listen_entries,           \* listen_ident -> ListenEntry
    m_next_listen_ident,
    \* the local replica of the admin Realm
    admin_schema,               \* "empty", "bad" (no RealmFile/id/path) or "ok"
    admin_rows,                 \* rows of RealmFile: <<[id, path], ...>>
    \* the regular Realms
    version,                    \* id -> transactions applied to the local replica
    \* the activation of on_admin_change()
    pc,                         \* "idle", "row" (top of the loop body), "bound"
    row_i,                      \* the loop's i (1-based)
    row_n,                      \* the loop's n, read once from the snapshot
    last_error,                 \* how the last on_admin_change() call ended
    at_enter,                   \* <<>>, or <<[known, filter_calls, next]>> as
                                \* they were when the latest loop was entered
    \* the notification pipeline
    paused,
    pstate,                     \* listen_ident -> "IDLE" | "PENDING"
    pending,                    \* listen_ident -> buffered notifications
    last_delivered,             \* listen_ident -> <<version>>, or <<>> before the first
    \* what the application (the target) has seen
    delivered,                  \* listen_ident -> realm_changed() invocations
    last_by,                    \* what led to the latest realm_changed()
    observed,                   \* idents passed to on_regular_change() by line 138
    filter_calls,               \* id -> number of filter_callback() invocations
    rejected,                   \* ids for which filter_callback() returned false
    failures,                   \* id -> executions of the catch block for it
    bound,                      \* [ident, id, name]: a session of id was created
                                \* with a callback that captured ident, after
                                \* filter_callback(name) returned true
    \* the application's latest call of an accessor
    acc,                        \* <<>>, or <<[op, ident, throws, name, realm]>>
    \* the notifier's life, where it is followed (SpecLife)
    starts,                     \* calls of start() so far
    server_rows,                \* ids of the Realms created on the server
    \* threads, where they are followed (SpecAsync)
    workers,                    \* kinds of AsyncTarget callbacks running on sync
                                \* threads: "admin", "regular"
    signals,                    \* kinds of work posted to the control loop
    loop,                       \* <<>>, or <<[kind, ident]>>: what the control
                                \* loop is doing
    reading,                    \* accessor calls in progress: [op, ident, thread]
    life                        \* "alive", "stopping" (destructor running), "torn"

base_vars == <<m_admin_realm_sync_session, m_known_realms, m_listen_entries,
               m_next_listen_ident>>
admin_vars == <<admin_schema, admin_rows>>
realm_vars == <<version>>
frame_vars == <<pc, row_i, row_n, last_error, at_enter>>
pipe_vars == <<pstate, pending, last_delivered, delivered, last_by>>
target_vars == <<observed, filter_calls, rejected, failures, bound>>
life_vars == <<starts, server_rows>>
async_vars == <<workers, signals, loop, reading, life>>
vars == <<base_vars, admin_vars, realm_vars, frame_vars, paused, pipe_vars,
          target_vars, acc, life_vars, async_vars>>

\* ---------------------------------------------------------------- helpers
RECURSIVE SumOver(_, _)
SumOver(f, S) ==
    IF S = {} THEN 0
    ELSE LET x == CHOOSE y \in S : TRUE IN f[x] + SumOver(f, S \ {x})

TotalFailures == SumOver(failures, Ids)

\* Group::is_empty() of the local replica: no transaction has brought a table.
group_is_empty(ver, id) == ver[id] = 0

\* ------------------------------------------------------------- accessors
\* get_realm_name that returns the entry's realm_id.
get_realm_name_returns_id(entries, ident) ==
    IF ident \notin DOMAIN entries
    THEN [throws |-> TRUE, name |-> <<>>]
    ELSE [throws |-> FALSE, name |-> <<entries[ident].realm_id>>]

\* get_realm_name(): m_listen_entries.at(listen_ident), then the entry's name.
get_realm_name(entries, ident) ==
    IF ident \notin DOMAIN entries
    THEN [throws |-> TRUE, name |-> <<>>]
    ELSE [throws |-> FALSE, name |-> <<entries[ident].realm_name>>]

\* get_realm without the empty-schema test: the Realm is returned as it is.
get_realm_no_reset(entries, ver, ident) ==
    IF ident \notin DOMAIN entries
    THEN [throws |-> TRUE, realm |-> <<>>]
    ELSE [throws |-> FALSE,
          realm |-> <<[realm_id |-> entries[ident].realm_id,
                       version |-> ver[entries[ident].realm_id]]>>]

\* get_realm with the empty-schema test inverted.
get_realm_resets_nonempty(entries, ver, ident) ==
    IF ident \notin DOMAIN entries
    THEN [throws |-> TRUE, realm |-> <<>>]
    ELSE LET id == entries[ident].realm_id IN
         IF ~group_is_empty(ver, id)
         THEN [throws |-> FALSE, realm |-> <<>>]
         ELSE [throws |-> FALSE,
               realm |-> <<[realm_id |-> id, version |-> ver[id]]>>]

\* get_realm(): m_listen_entries.at(listen_ident), open the local replica,
\* reset the result to null when its group is empty.
get_realm(entries, ver, ident) ==
    IF ident \notin DOMAIN entries
    THEN [throws |-> TRUE, realm |-> <<>>]
    ELSE LET id == entries[ident].realm_id IN
         IF group_is_empty(ver, id)
         THEN [throws |-> FALSE, realm |-> <<>>]
         ELSE [throws |-> FALSE,
               realm |-> <<[realm_id |-> id, version |-> ver[id]]>>]

\* ------------------------------------------------ notification pipeline
Pipe == [pstate |-> pstate, pending |-> pending,
         last_delivered |-> last_delivered, delivered |-> delivered,
         last_by |-> last_by]

\* merge that queues the new diff behind the buffered one.
merge_appends(buf, n) == Append(buf, n)

\* Merging a newly computed diff into the buffer: the buffered window keeps
\* its old end and takes the new diff's new end.
merge(buf, n) ==
    IF buf = <<>> THEN <<n>>
    ELSE <<[old |-> buf[1].old, new |-> n.new]>>

\* deliver that does not advance the last-delivered version.
deliver_keeps_last(P, ident, n, by) ==
    [P EXCEPT !.delivered[ident] = Append(@, [old |-> n.old, new |-> n.new]),
              !.last_by = by,
              !.pending[ident] = <<>>,
              !.pstate[ident] = "IDLE"]

\* DELIVERING: hand the notification to realm_changed(), advance the
\* last-delivered version, back to IDLE.
deliver(P, ident, n, by) ==
    [P EXCEPT !.delivered[ident] =
                  Append(@, [old |-> n.old, new |-> n.new]),
              !.last_by = by,
              !.last_delivered[ident] = <<n.new>>,
              !.pending[ident] = <<>>,
              !.pstate[ident] = "IDLE"]

\* buffer that keeps the diff it already holds and drops the new one.
buffer_keeps_first(P, ident, n) ==
    [P EXCEPT !.pending[ident] = IF @ = <<>> THEN <<n>> ELSE @,
              !.pstate[ident] = "PENDING"]

\* PENDING: keep the notification for resume().
buffer(P, ident, n) ==
    [P EXCEPT !.pending[ident] = merge(@, n),
              !.pstate[ident] = "PENDING"]

\* on_regular_change that does not look at the paused flag.
on_regular_change_ignores_pause(P, entries, ver, isPaused, ident, by) ==
    LET got == get_realm(entries, ver, ident) IN
    IF got.throws \/ got.realm = <<>> THEN P
    ELSE deliver(P, ident, [old |-> P.last_delivered[ident],
                            new |-> got.realm[1].version], by)

\* AsyncTarget::on_regular_change(listen_ident) as the pipeline implements
\* it: look the Realm up, and deliver or buffer the window from the
\* last-delivered version to the Realm's current version.
on_regular_change(P, entries, ver, isPaused, ident, by) ==
    LET got == get_realm(entries, ver, ident) IN
    IF got.throws \/ got.realm = <<>> THEN P
    ELSE LET n == [old |-> P.last_delivered[ident],
                   new |-> got.realm[1].version] IN
         IF isPaused THEN buffer(P, ident, n)
         ELSE deliver(P, ident, n, by)

\* resume_one that empties the slot without calling realm_changed().
resume_one_drops(P, ident) ==
    IF P.pstate[ident] = "PENDING"
    THEN [P EXCEPT !.pending[ident] = <<>>, !.pstate[ident] = "IDLE"]
    ELSE P

\* resume() for one listener slot.
resume_one(P, ident) ==
    IF P.pstate[ident] = "PENDING" /\ P.pending[ident] # <<>>
    THEN deliver(P, ident, P.pending[ident][1], "resume")
    ELSE P

\* resume_all that stops after the first listener slot.
resume_all_first_only(P, S) ==
    IF S = {} THEN P
    ELSE resume_one(P, CHOOSE x \in S : \A y \in S : x <= y)

RECURSIVE resume_all(_, _)
resume_all(P, S) ==
    IF S = {} THEN P
    ELSE LET ident == CHOOSE x \in S : TRUE IN
         resume_all(resume_one(P, ident), S \ {ident})

\* has_pending()
has_pending == \E ident \in Idents : pstate[ident] = "PENDING"

SetPipe(P) ==
    /\ pstate' = P.pstate
    /\ pending' = P.pending
    /\ last_delivered' = P.last_delivered
    /\ delivered' = P.delivered
    /\ last_by' = P.last_by

\* ------------------------------------------------------------------ Init
\* The state after the constructor: nothing known, nothing tracked, the
\* admin session not yet opened, empty local replicas.
Init ==
    /\ m_admin_realm_sync_session = "null"
    /\ m_known_realms = {}
    /\ m_listen_entries = <<>>
    /\ m_next_listen_ident = 0
    /\ admin_schema = "empty"
    /\ admin_rows = <<>>
    /\ version = [id \in Ids |-> 0]
    /\ pc = "idle"
    /\ row_i = 0
    /\ row_n = 0
    /\ last_error = "none"
    /\ at_enter = <<>>
    /\ paused = FALSE
    /\ pstate = [ident \in Idents |-> "IDLE"]
    /\ pending = [ident \in Idents |-> <<>>]
    /\ last_delivered = [ident \in Idents |-> <<>>]
    /\ delivered = [ident \in Idents |-> <<>>]
    /\ last_by = "none"
    /\ observed = {}
    /\ filter_calls = [id \in Ids |-> 0]
    /\ rejected = {}
    /\ failures = [id \in Ids |-> 0]
    /\ bound = {}
    /\ acc = <<>>
    /\ starts = 0
    /\ server_rows = <<>>
    /\ workers = {}
    /\ signals = {}
    /\ loop = <<>>
    /\ reading = {}
    /\ life = "alive"

\* ------------------------------------------------------------- start()
\* start() on a notifier that closes the admin session it already has.
open_admin_session_toggles(session) ==
    IF session = "open" THEN "null" ELSE "open"

\* m_admin_realm_sync_session = get_sync_session(...): a new session on the
\* admin Realm takes the place of whatever the member held, and the
\* assignment releases the session it held before.
open_admin_session(session) == "open"

start ==
    /\ m_admin_realm_sync_session' =
           open_admin_session(m_admin_realm_sync_session)
    /\ acc' = <<>>
    /\ UNCHANGED <<life_vars, async_vars>>
    /\ UNCHANGED <<m_known_realms, m_listen_entries, m_next_listen_ident,
                   admin_vars, realm_vars, frame_vars, paused, pipe_vars,
                   target_vars>>

\* start(), with its calls counted.
start_counted ==
    /\ starts < MaxStarts
    /\ starts' = starts + 1
    /\ m_admin_realm_sync_session' =
           open_admin_session(m_admin_realm_sync_session)
    /\ acc' = <<>>
    /\ UNCHANGED <<m_known_realms, m_listen_entries, m_next_listen_ident,
                   admin_vars, realm_vars, frame_vars, paused, pipe_vars,
                   target_vars, server_rows, async_vars>>

\* A Realm is created on the server, whether or not the notifier listens.
server_create_realm(id) ==
    /\ Len(server_rows) < MaxRows
    /\ server_rows' = Append(server_rows, id)
    /\ acc' = <<>>
    /\ UNCHANGED <<base_vars, admin_vars, realm_vars, frame_vars, paused,
                   pipe_vars, target_vars, starts, async_vars>>

\* ------------------------------------------- the admin Realm's replica
\* AdminSchemaCreated without a session: the replica is written all the same.
AdminSchemaCreated_without_session ==
    /\ admin_schema = "empty"
    /\ admin_schema' = "ok"
    /\ acc' = <<>>
    /\ UNCHANGED <<life_vars, async_vars>>
    /\ UNCHANGED <<admin_rows, base_vars, realm_vars, frame_vars, paused,
                   pipe_vars, target_vars>>

\* The admin session applies a remote transaction that creates the schema.
AdminSchemaCreated ==
    /\ m_admin_realm_sync_session = "open"
    /\ admin_schema = "empty"
    /\ admin_schema' = "ok"
    /\ acc' = <<>>
    /\ UNCHANGED <<life_vars, async_vars>>
    /\ UNCHANGED <<admin_rows, base_vars, realm_vars, frame_vars, paused,
                   pipe_vars, target_vars>>

\* ... or a schema without the RealmFile table or its id / path columns,
AdminSchemaUnexpected ==
    /\ m_admin_realm_sync_session = "open"
    /\ admin_schema = "empty"
    /\ admin_schema' = "bad"
    /\ acc' = <<>>
    /\ UNCHANGED <<life_vars, async_vars>>
    /\ UNCHANGED <<admin_rows, base_vars, realm_vars, frame_vars, paused,
                   pipe_vars, target_vars>>

\* ... which a later transaction completes.
AdminSchemaCompleted ==
    /\ m_admin_realm_sync_session = "open"
    /\ admin_schema = "bad"
    /\ admin_schema' = "ok"
    /\ acc' = <<>>
    /\ UNCHANGED <<life_vars, async_vars>>
    /\ UNCHANGED <<admin_rows, base_vars, realm_vars, frame_vars, paused,
                   pipe_vars, target_vars>>

\* A Realm appears on the server: a row is added to RealmFile.
AdminRowAdded(id) ==
    /\ m_admin_realm_sync_session = "open"
    /\ admin_schema = "ok"
    /\ Len(admin_rows) < MaxRows
    /\ admin_rows' = Append(admin_rows, [id |-> id, path |-> PathOf(id)])
    /\ acc' = <<>>
    /\ UNCHANGED <<life_vars, async_vars>>
    /\ UNCHANGED <<admin_schema, base_vars, realm_vars, frame_vars, paused,
                   pipe_vars, target_vars>>

\* ------------------------------------------------- on_admin_change()
CurRow == admin_rows[row_i]

\* The end of the loop body: ++i, and return when i reaches n.
Advance ==
    /\ at_enter' = at_enter
    /\ IF row_i >= row_n
       THEN /\ pc' = "idle"
            /\ row_i' = 0
            /\ row_n' = 0
            /\ last_error' = "none"
       ELSE /\ pc' = "row"
            /\ row_i' = row_i + 1
            /\ UNCHANGED <<row_n, last_error>>

\* An exception leaves on_admin_change().
Abort(err) ==
    /\ pc' = "idle"
    /\ row_i' = 0
    /\ row_n' = 0
    /\ last_error' = err
    /\ at_enter' = at_enter

\* known_insert without the insertion: the id is never remembered.
known_insert_forgets(known, id) == known

\* m_known_realms.insert(realm_id_2)
known_insert(known, id) == known \cup {id}

\* known_erase that clears the whole set.
known_erase_all(known, id) == {}

\* known_erase without the erasure: the catch block only rethrows.
known_erase_keeps(known, id) == known

\* catch (...) { m_known_realms.erase(realm_id_2); throw; }
known_erase(known, id) == known \ {id}

\* m_listen_entries.emplace(listen_ident, std::move(entry)): no effect on a
\* key that is already there.
emplace(entries, ident, id, name) ==
    entries @@ (ident :> [realm_id |-> id, realm_name |-> name,
                          sync_session |-> ident])

\* on_admin_change_no_schema that treats the empty group as an unexpected
\* schema.
on_admin_change_no_schema_throws ==
    /\ pc = "idle"
    /\ admin_schema = "empty"
    /\ last_error' = "SchemaViolation"
    /\ acc' = <<>>
    /\ UNCHANGED <<life_vars, async_vars>>
    /\ UNCHANGED <<pc, row_i, row_n, at_enter, base_vars, admin_vars, realm_vars,
                   paused, pipe_vars, target_vars>>

\* group.is_empty(): no schema yet, return.
on_admin_change_no_schema ==
    /\ pc = "idle"
    /\ admin_schema = "empty"
    /\ last_error' = "none"
    /\ acc' = <<>>
    /\ UNCHANGED <<life_vars, async_vars>>
    /\ UNCHANGED <<pc, row_i, row_n, at_enter, base_vars, admin_vars, realm_vars,
                   paused, pipe_vars, target_vars>>

\* No RealmFile table, or no id / path column: runtime_error.
on_admin_change_unexpected_schema ==
    /\ pc = "idle"
    /\ admin_schema = "bad"
    /\ last_error' = "SchemaViolation"
    /\ acc' = <<>>
    /\ UNCHANGED <<life_vars, async_vars>>
    /\ UNCHANGED <<pc, row_i, row_n, at_enter, base_vars, admin_vars, realm_vars,
                   paused, pipe_vars, target_vars>>

\* n = realms->size(), i = 0; the loop is left at once when n = 0.
on_admin_change_enter ==
    /\ pc = "idle"
    /\ admin_schema = "ok"
    /\ IF Len(admin_rows) = 0
       THEN UNCHANGED <<pc, row_i, row_n, at_enter>>
       ELSE /\ pc' = "row"
            /\ row_i' = 1
            /\ row_n' = Len(admin_rows)
            /\ at_enter' = <<[known |-> m_known_realms,
                              filter_calls |-> filter_calls,
                              next |-> m_next_listen_ident]>>
    /\ last_error' = "none"
    /\ acc' = <<>>
    /\ UNCHANGED <<life_vars, async_vars>>
    /\ UNCHANGED <<base_vars, admin_vars, realm_vars, paused, pipe_vars,
                   target_vars>>

\* row_known with "break" in the place of "continue".
row_known_breaks ==
    /\ pc = "row"
    /\ CurRow.id \in m_known_realms
    /\ pc' = "idle"
    /\ row_i' = 0
    /\ row_n' = 0
    /\ last_error' = "none"
    /\ at_enter' = at_enter
    /\ acc' = <<>>
    /\ UNCHANGED <<life_vars, async_vars>>
    /\ UNCHANGED <<base_vars, admin_vars, realm_vars, paused, pipe_vars,
                   target_vars>>

\* m_known_realms.count(realm_id_2) > 0: continue.
row_known ==
    /\ pc = "row"
    /\ CurRow.id \in m_known_realms
    /\ Advance
    /\ acc' = <<>>
    /\ UNCHANGED <<life_vars, async_vars>>
    /\ UNCHANGED <<base_vars, admin_vars, realm_vars, paused, pipe_vars,
                   target_vars>>

\* row_rejected without the "continue": a session is opened all the same.
row_rejected_goes_on ==
    /\ pc = "row"
    /\ CurRow.id \notin m_known_realms
    /\ m_known_realms' = known_insert(m_known_realms, CurRow.id)
    /\ filter_calls' = [filter_calls EXCEPT ![CurRow.id] = @ + 1]
    /\ rejected' = rejected \cup {CurRow.id}
    /\ bound' = bound \cup {[ident |-> m_next_listen_ident, id |-> CurRow.id,
                                name |-> CurRow.path]}
    /\ pc' = "bound"
    /\ acc' = <<>>
    /\ UNCHANGED <<life_vars, async_vars>>
    /\ UNCHANGED <<row_i, row_n, last_error, at_enter,
                   m_admin_realm_sync_session,
                   m_listen_entries, m_next_listen_ident, admin_vars,
                   realm_vars, paused, pipe_vars, observed, failures>>

\* row_rejected that consumes a listen_ident for the rejected Realm.
row_rejected_consumes_ident ==
    /\ pc = "row"
    /\ CurRow.id \notin m_known_realms
    /\ m_known_realms' = known_insert(m_known_realms, CurRow.id)
    /\ filter_calls' = [filter_calls EXCEPT ![CurRow.id] = @ + 1]
    /\ rejected' = rejected \cup {CurRow.id}
    /\ m_next_listen_ident' = m_next_listen_ident + 1
    /\ Advance
    /\ acc' = <<>>
    /\ UNCHANGED <<life_vars, async_vars>>
    /\ UNCHANGED <<m_admin_realm_sync_session, m_listen_entries,
                   admin_vars, realm_vars, paused,
                   pipe_vars, observed, failures, bound>>

\* A new id; filter_callback() returns false: continue.
row_rejected ==
    /\ pc = "row"
    /\ CurRow.id \notin m_known_realms
    /\ m_known_realms' = known_insert(m_known_realms, CurRow.id)
    /\ filter_calls' = [filter_calls EXCEPT ![CurRow.id] = @ + 1]
    /\ rejected' = rejected \cup {CurRow.id}
    /\ Advance
    /\ acc' = <<>>
    /\ UNCHANGED <<life_vars, async_vars>>
    /\ UNCHANGED <<m_admin_realm_sync_session, m_listen_entries,
                   m_next_listen_ident, admin_vars, realm_vars, paused,
                   pipe_vars, observed, failures, bound>>

\* A new id; filter_callback() returns true and get_sync_session() returns a
\* session whose callback is bound to listen_ident = m_next_listen_ident.
row_accepted ==
    /\ pc = "row"
    /\ CurRow.id \notin m_known_realms
    /\ m_known_realms' = known_insert(m_known_realms, CurRow.id)
    /\ filter_calls' = [filter_calls EXCEPT ![CurRow.id] = @ + 1]
    /\ bound' = bound \cup {[ident |-> m_next_listen_ident, id |-> CurRow.id,
                                name |-> CurRow.path]}
    /\ pc' = "bound"
    /\ acc' = <<>>
    /\ UNCHANGED <<life_vars, async_vars>>
    /\ UNCHANGED <<row_i, row_n, last_error, at_enter,
                   m_admin_realm_sync_session,
                   m_listen_entries, m_next_listen_ident, admin_vars,
                   realm_vars, paused, pipe_vars, observed, rejected, failures>>

\* What the caller of on_admin_change() sees of an exception thrown inside
\* the try block: filter_callback()'s own exception, or another one.
ErrorOf(stage) == IF stage = "filter" THEN "filter_failure" ELSE "failure"

\* The exceptions that pass through the catch block.
CatchErrors == {"failure", "filter_failure"}

\* row_throws with a catch block that leaves the id in m_known_realms when
\* it was filter_callback() that threw.
row_throws_keeps_when_filter_threw(stage) ==
    /\ pc = "row"
    /\ CurRow.id \notin m_known_realms
    /\ TotalFailures < MaxFailures
    /\ m_known_realms' =
           IF stage = "filter"
           THEN known_insert(m_known_realms, CurRow.id)
           ELSE known_erase(known_insert(m_known_realms, CurRow.id), CurRow.id)
    /\ filter_calls' = [filter_calls EXCEPT
                            ![CurRow.id] = IF stage = "name" THEN @ ELSE @ + 1]
    /\ failures' = [failures EXCEPT ![CurRow.id] = @ + 1]
    /\ Abort(ErrorOf(stage))
    /\ acc' = <<>>
    /\ UNCHANGED <<life_vars, async_vars>>
    /\ UNCHANGED <<m_admin_realm_sync_session, m_listen_entries,
                   m_next_listen_ident, admin_vars, realm_vars, paused,
                   pipe_vars, observed, rejected, bound>>

\* A new id; something inside the try block throws before a session exists:
\* the copy of the name ("name"), filter_callback() itself ("filter"), or
\* get_local_path / get_server_url / get_sync_session ("session").
row_throws(stage) ==
    /\ pc = "row"
    /\ CurRow.id \notin m_known_realms
    /\ TotalFailures < MaxFailures
    /\ m_known_realms' =
           known_erase(known_insert(m_known_realms, CurRow.id), CurRow.id)
    /\ filter_calls' = [filter_calls EXCEPT
                            ![CurRow.id] = IF stage = "name" THEN @ ELSE @ + 1]
    /\ failures' = [failures EXCEPT ![CurRow.id] = @ + 1]
    /\ Abort(ErrorOf(stage))
    /\ acc' = <<>>
    /\ UNCHANGED <<life_vars, async_vars>>
    /\ UNCHANGED <<m_admin_realm_sync_session, m_listen_entries,
                   m_next_listen_ident, admin_vars, realm_vars, paused,
                   pipe_vars, observed, rejected, bound>>

\* row_inserted without the call after the try block.
row_inserted_no_call ==
    /\ pc = "bound"
    /\ m_listen_entries' =
           emplace(m_listen_entries, m_next_listen_ident, CurRow.id, CurRow.path)
    /\ m_next_listen_ident' = m_next_listen_ident + 1
    /\ Advance
    /\ acc' = <<>>
    /\ UNCHANGED <<life_vars, async_vars>>
    /\ UNCHANGED <<m_admin_realm_sync_session, m_known_realms, admin_vars,
                   realm_vars, paused, pipe_vars, target_vars>>

\* The entry is inserted, the ident consumed, and the target is told about
\* the new listener slot (the call after the try block).
row_inserted ==
    /\ pc = "bound"
    /\ m_listen_entries' =
           emplace(m_listen_entries, m_next_listen_ident, CurRow.id, CurRow.path)
    /\ m_next_listen_ident' = m_next_listen_ident + 1
    /\ observed' = observed \cup {m_next_listen_ident}
    /\ SetPipe(on_regular_change(Pipe, m_listen_entries', version, paused,
                                 m_next_listen_ident, "observed"))
    /\ Advance
    /\ acc' = <<>>
    /\ UNCHANGED <<life_vars, async_vars>>
    /\ UNCHANGED <<m_admin_realm_sync_session, m_known_realms, admin_vars,
                   realm_vars, paused, filter_calls, rejected,
                   failures, bound>>

\* row_inserted_target_throws with the call inside the try block: the
\* catch block erases the id.
row_inserted_target_throws_erases ==
    /\ pc = "bound"
    /\ m_listen_entries' =
           emplace(m_listen_entries, m_next_listen_ident, CurRow.id, CurRow.path)
    /\ m_next_listen_ident' = m_next_listen_ident + 1
    /\ m_known_realms' = known_erase(m_known_realms, CurRow.id)
    /\ observed' = observed \cup {m_next_listen_ident}
    /\ Abort("target_failure")
    /\ acc' = <<>>
    /\ UNCHANGED <<life_vars, async_vars>>
    /\ UNCHANGED <<m_admin_realm_sync_session, admin_vars,
                   realm_vars, paused, pipe_vars, filter_calls,
                   rejected, failures, bound>>

\* As above, but the target's on_regular_change() throws: the exception
\* leaves on_admin_change() from outside the try block.
row_inserted_target_throws ==
    /\ pc = "bound"
    /\ m_listen_entries' =
           emplace(m_listen_entries, m_next_listen_ident, CurRow.id, CurRow.path)
    /\ m_next_listen_ident' = m_next_listen_ident + 1
    /\ observed' = observed \cup {m_next_listen_ident}
    /\ Abort("target_failure")
    /\ acc' = <<>>
    /\ UNCHANGED <<life_vars, async_vars>>
    /\ UNCHANGED <<m_admin_realm_sync_session, m_known_realms, admin_vars,
                   realm_vars, paused, pipe_vars, filter_calls,
                   rejected, failures, bound>>

\* row_emplace_throws where the exception comes after the entry went in.
row_emplace_throws_keeps_entry ==
    /\ pc = "bound"
    /\ TotalFailures < MaxFailures
    /\ m_listen_entries' =
           emplace(m_listen_entries, m_next_listen_ident, CurRow.id, CurRow.path)
    /\ m_next_listen_ident' = m_next_listen_ident + 1
    /\ m_known_realms' = known_erase(m_known_realms, CurRow.id)
    /\ failures' = [failures EXCEPT ![CurRow.id] = @ + 1]
    /\ Abort("failure")
    /\ acc' = <<>>
    /\ UNCHANGED <<life_vars, async_vars>>
    /\ UNCHANGED <<m_admin_realm_sync_session, admin_vars, realm_vars, paused,
                   pipe_vars, observed, filter_calls, rejected, bound>>

\* emplace() throws: the session just created is released by the unwinding.
row_emplace_throws ==
    /\ pc = "bound"
    /\ TotalFailures < MaxFailures
    /\ m_known_realms' = known_erase(m_known_realms, CurRow.id)
    /\ failures' = [failures EXCEPT ![CurRow.id] = @ + 1]
    /\ Abort("failure")
    /\ acc' = <<>>
    /\ UNCHANGED <<life_vars, async_vars>>
    /\ UNCHANGED <<m_admin_realm_sync_session, m_listen_entries,
                   m_next_listen_ident, admin_vars, realm_vars, paused,
                   pipe_vars, observed, filter_calls, rejected, bound>>

\* ------------------------------------------------- the regular Realms
\* The sessions that exist: one per entry, and the one on_admin_change()
\* holds between get_sync_session() and emplace().
Sessions ==
    {[ident |-> k, id |-> m_listen_entries[k].realm_id] :
         k \in DOMAIN m_listen_entries}
    \cup (IF pc = "bound"
          THEN {[ident |-> m_next_listen_ident, id |-> CurRow.id]}
          ELSE {})

\* SessionCommit with a sync_transact_callback that does nothing.
SessionCommit_no_callback(s) ==
    /\ s \in Sessions
    /\ version[s.id] < MaxVersion
    /\ version' = [version EXCEPT ![s.id] = @ + 1]
    /\ acc' = <<>>
    /\ UNCHANGED <<life_vars, async_vars>>
    /\ UNCHANGED <<base_vars, admin_vars, frame_vars, paused, pipe_vars,
                   target_vars>>

\* A session applies the next remote transaction to its local replica and
\* calls its sync_transact_callback, which calls
\* async_target->on_regular_change(listen_ident).
SessionCommit(s) ==
    /\ s \in Sessions
    /\ version[s.id] < MaxVersion
    /\ version' = [version EXCEPT ![s.id] = @ + 1]
    /\ SetPipe(on_regular_change(Pipe, m_listen_entries, version', paused,
                                 s.ident, "commit"))
    /\ acc' = <<>>
    /\ UNCHANGED <<life_vars, async_vars>>
    /\ UNCHANGED <<base_vars, admin_vars, frame_vars, paused, target_vars>>

\* ------------------------------------------------- pause() / resume()
pause ==
    /\ paused' = TRUE
    /\ acc' = <<>>
    /\ UNCHANGED <<life_vars, async_vars>>
    /\ UNCHANGED <<base_vars, admin_vars, realm_vars, frame_vars, pipe_vars,
                   target_vars>>

resume ==
    /\ paused' = FALSE
    /\ SetPipe(resume_all(Pipe, Idents))
    /\ acc' = <<>>
    /\ UNCHANGED <<life_vars, async_vars>>
    /\ UNCHANGED <<base_vars, admin_vars, realm_vars, frame_vars, target_vars>>

\* ------------------------------------------------------------------ Next
\* ------------------------------------- the application calls an accessor
\* The listen_ident values the application may pass: those that can be
\* handed out, and one that never is.
CallIdents == 0..MaxRows

\* The application (subclass) calls get_realm_name(); as the header requires
\* it does so while on_admin_change() is not running.
call_get_realm_name(ident) ==
    /\ pc = "idle"
    /\ LET got == get_realm_name(m_listen_entries, ident) IN
       acc' = <<[op |-> "get_realm_name", ident |-> ident,
                 throws |-> got.throws, name |-> got.name, realm |-> <<>>]>>
    /\ UNCHANGED <<base_vars, admin_vars, realm_vars, frame_vars, paused,
                   pipe_vars, target_vars, life_vars, async_vars>>

\* The application (subclass) calls get_realm().
call_get_realm(ident) ==
    /\ pc = "idle"
    /\ LET got == get_realm(m_listen_entries, version, ident) IN
       acc' = <<[op |-> "get_realm", ident |-> ident,
                 throws |-> got.throws, name |-> <<>>, realm |-> got.realm]>>
    /\ UNCHANGED <<base_vars, admin_vars, realm_vars, frame_vars, paused,
                   pipe_vars, target_vars, life_vars, async_vars>>

\* ------------------------------------ threads and the control loop
AdminWork == [kind |-> "admin", ident |-> 0]
RegularWork(ident) == [kind |-> "regular", ident |-> ident]

\* The admin session has applied a transaction: its sync_transact_callback
\* calls AsyncTarget::on_admin_change() on the sync thread.
admin_callback_begins ==
    /\ m_admin_realm_sync_session = "open"
    /\ workers' = workers \cup {"admin"}
    /\ acc' = <<>>
    /\ UNCHANGED <<base_vars, admin_vars, realm_vars, frame_vars, paused,
                   pipe_vars, target_vars, life_vars, signals, loop, reading,
                   life>>

\* A regular session has applied a transaction (what it brought is not
\* followed here): its sync_transact_callback calls
\* AsyncTarget::on_regular_change(listen_ident) on the sync thread.
regular_callback_begins(s) ==
    /\ s \in Sessions
    /\ life = "alive"
    /\ workers' = workers \cup {"regular"}
    /\ acc' = <<>>
    /\ UNCHANGED <<base_vars, admin_vars, realm_vars, frame_vars, paused,
                   pipe_vars, target_vars, life_vars, signals, loop, reading,
                   life>>

\* The callback posts its work and also calls get_realm() itself, on the
\* sync thread.
callback_returns_after_get_realm(kind) ==
    /\ kind \in workers
    /\ workers' = workers \ {kind}
    /\ signals' = signals \cup {kind}
    /\ reading' = reading \cup {[op |-> "get_realm", ident |-> 0,
                                 thread |-> "sync"]}
    /\ acc' = <<>>
    /\ UNCHANGED <<base_vars, admin_vars, realm_vars, frame_vars, paused,
                   pipe_vars, target_vars, life_vars, loop, life>>

\* The callback posts its work to the control loop and returns.
callback_returns(kind) ==
    /\ kind \in workers
    /\ workers' = workers \ {kind}
    /\ signals' = signals \cup {kind}
    /\ acc' = <<>>
    /\ UNCHANGED <<base_vars, admin_vars, realm_vars, frame_vars, paused,
                   pipe_vars, target_vars, life_vars, loop, reading, life>>

\* The control loop takes the admin Realm's change.
loop_takes_admin ==
    /\ life = "alive"
    /\ loop = <<>>
    /\ "admin" \in signals
    /\ signals' = signals \ {"admin"}
    /\ loop' = <<AdminWork>>
    /\ acc' = <<>>
    /\ UNCHANGED <<base_vars, admin_vars, realm_vars, frame_vars, paused,
                   pipe_vars, target_vars, life_vars, workers, reading, life>>

\* The control loop takes the change of one regular Realm.
loop_takes_regular(s) ==
    /\ life = "alive"
    /\ loop = <<>>
    /\ "regular" \in signals
    /\ s \in Sessions
    /\ signals' = signals \ {"regular"}
    /\ loop' = <<RegularWork(s.ident)>>
    /\ acc' = <<>>
    /\ UNCHANGED <<base_vars, admin_vars, realm_vars, frame_vars, paused,
                   pipe_vars, target_vars, life_vars, workers, reading, life>>

\* The control loop is done with its work.
loop_returns ==
    /\ loop # <<>>
    /\ pc = "idle"
    /\ \A r \in reading : r.thread # "loop"
    /\ loop' = <<>>
    /\ acc' = <<>>
    /\ UNCHANGED <<base_vars, admin_vars, realm_vars, frame_vars, paused,
                   pipe_vars, target_vars, life_vars, workers, signals,
                   reading, life>>

\* The control loop, handling a regular change, enters an accessor.
accessor_begins(op) ==
    /\ loop # <<>>
    /\ loop[1].kind = "regular"
    /\ pc = "idle"
    /\ \A r \in reading : r.thread # "loop"
    /\ reading' = reading \cup {[op |-> op, ident |-> loop[1].ident,
                                 thread |-> "loop"]}
    /\ acc' = <<>>
    /\ UNCHANGED <<base_vars, admin_vars, realm_vars, frame_vars, paused,
                   pipe_vars, target_vars, life_vars, workers, signals, loop,
                   life>>

\* The accessor returns.
accessor_returns(r) ==
    /\ r \in reading
    /\ reading' = reading \ {r}
    /\ acc' = <<>>
    /\ UNCHANGED <<base_vars, admin_vars, realm_vars, frame_vars, paused,
                   pipe_vars, target_vars, life_vars, workers, signals, loop,
                   life>>

\* ------------------------------------------------------------ teardown
\* The notifier is destroyed (by the thread that runs the control loop, when
\* it runs nothing): the members release the admin session and the
\* sessions of the listen entries, which are stopped.
teardown_begins ==
    /\ life = "alive"
    /\ loop = <<>>
    /\ pc = "idle"
    /\ life' = "stopping"
    /\ m_admin_realm_sync_session' = "null"
    /\ m_listen_entries' = <<>>
    /\ acc' = <<>>
    /\ UNCHANGED <<m_known_realms, m_next_listen_ident, admin_vars,
                   realm_vars, frame_vars, paused, pipe_vars, target_vars,
                   life_vars, workers, signals, loop, reading>>

\* teardown_returns without the join.
teardown_returns_without_join ==
    /\ life = "stopping"
    /\ life' = "torn"
    /\ acc' = <<>>
    /\ UNCHANGED <<base_vars, admin_vars, realm_vars, frame_vars, paused,
                   pipe_vars, target_vars, life_vars, workers, signals, loop,
                   reading>>

\* client.stop(); m_thread.join(): the destruction returns when no callback
\* is running on a sync thread any more.
teardown_returns ==
    /\ life = "stopping"
    /\ workers = {}
    /\ life' = "torn"
    /\ acc' = <<>>
    /\ UNCHANGED <<base_vars, admin_vars, realm_vars, frame_vars, paused,
                   pipe_vars, target_vars, life_vars, workers, signals, loop,
                   reading>>

\* GlobalNotifierBase, its sessions and the admin Realm
NextBase ==
    \/ start
    \/ AdminSchemaCreated
    \/ AdminSchemaUnexpected
    \/ AdminSchemaCompleted
    \/ \E id \in Ids : AdminRowAdded(id)
    \/ on_admin_change_no_schema
    \/ on_admin_change_unexpected_schema
    \/ on_admin_change_enter
    \/ row_known
    \/ row_rejected
    \/ row_accepted
    \/ \E stage \in {"name", "filter", "session"} : row_throws(stage)
    \/ row_inserted
    \/ row_inserted_target_throws
    \/ row_emplace_throws
    \/ \E s \in Sessions : SessionCommit(s)

Next ==
    \/ NextBase
    \/ pause
    \/ resume

Spec == Init /\ [][Next]_vars

\* GlobalNotifierBase with an application that calls the accessors.
NextAccess ==
    \/ NextBase
    \/ \E ident \in CallIdents : call_get_realm_name(ident)
    \/ \E ident \in CallIdents : call_get_realm(ident)

SpecAccess == Init /\ [][NextAccess]_vars

\* GlobalNotifierBase from its construction on: Realms are created on the
\* server at any time, the admin session brings their rows to the local
\* replica once start() opened it, and start() may be called again.
NextLife ==
    \/ start_counted
    \/ \E id \in Ids : server_create_realm(id)
    \/ AdminSchemaCreated
    \/ AdminSchemaUnexpected
    \/ AdminSchemaCompleted
    \/ /\ Len(admin_rows) < Len(server_rows)
       /\ AdminRowAdded(server_rows[Len(admin_rows) + 1])
    \/ on_admin_change_no_schema
    \/ on_admin_change_unexpected_schema
    \/ on_admin_change_enter
    \/ row_known
    \/ row_rejected
    \/ row_accepted
    \/ \E stage \in {"name", "filter", "session"} : row_throws(stage)
    \/ row_inserted
    \/ row_inserted_target_throws
    \/ row_emplace_throws
    \/ \E s \in Sessions : SessionCommit(s)

SpecLife == Init /\ [][NextLife]_vars

\* GlobalNotifierBase with the threads around it: the sessions' callbacks
\* run on sync threads and overlap, the control loop takes their work one
\* piece at a time and is the only caller of on_admin_change() and of the
\* accessors, and the notifier is destroyed at some point.
NextAsync ==
    \/ life = "alive" /\ start
    \/ AdminSchemaCreated
    \/ \E id \in Ids : AdminRowAdded(id)
    \/ admin_callback_begins
    \/ \E s \in Sessions : regular_callback_begins(s)
    \/ \E kind \in workers : callback_returns(kind)
    \/ loop_takes_admin
    \/ \E s \in Sessions : loop_takes_regular(s)
    \/ loop = <<AdminWork>> /\ on_admin_change_no_schema
    \/ loop = <<AdminWork>> /\ on_admin_change_enter
    \/ row_known
    \/ row_rejected
    \/ row_accepted
    \/ row_inserted
    \/ \E op \in {"get_realm_name", "get_realm"} : accessor_begins(op)
    \/ \E r \in reading : accessor_returns(r)
    \/ loop_returns
    \/ teardown_begins
    \/ teardown_returns

SpecAsync == Init /\ [][NextAsync]_vars

\* ================================================================ claims
InKnown(id) == IF id \in m_known_realms THEN 1 ELSE 0

Tracked == DOMAIN m_listen_entries

RealmOf(ident) == m_listen_entries[ident].realm_id

\* C1 (as stated): over any sequence of on_admin_change() cycles, aborted
\* ones included, filter_callback() is invoked exactly once for every id
\* that has been looked at, and never more than once for any id.
C1_FilterExactlyOnce ==
    \A id \in Ids :
        /\ filter_calls[id] <= 1
        /\ id \in m_known_realms => filter_calls[id] = 1

\* C1 (amended): filter_callback() is invoked once for every id in
\* m_known_realms, plus at most once more for each attempt on that id that
\* the catch block aborted; an id no attempt failed on is filtered exactly
\* once, whether it was accepted or rejected.
C1_FilterOncePerAttempt ==
    \A id \in Ids :
        /\ filter_calls[id] <= InKnown(id) + failures[id]
        /\ failures[id] = 0 => filter_calls[id] = InKnown(id)

\* An id filtered twice because its first attempt failed, beside an id that
\* was filtered once and rejected.
C1_Witness ==
    \E a \in Ids, b \in Ids :
        /\ a # b
        /\ pc = "idle"
        /\ filter_calls[a] = 2 /\ failures[a] = 1 /\ a \in m_known_realms
        /\ filter_calls[b] = 1 /\ failures[b] = 0 /\ b \in rejected

\* C2: an id filter_callback() rejected stays in m_known_realms, never gets
\* a listen entry, a session or a listen_ident, and no on_regular_change()
\* or realm_changed() concerns it.
C2_RejectedExcluded ==
    /\ \A id \in rejected :
           /\ id \in m_known_realms
           /\ \A s \in Sessions : s.id # id
    /\ \A ident \in Idents :
           (\/ ident \in observed
            \/ delivered[ident] # <<>>
            \/ pending[ident] # <<>>
            \/ pstate[ident] = "PENDING")
           => /\ ident \in Tracked
              /\ RealmOf(ident) \notin rejected

\* A rejected id that a later cycle has passed over, beside a tracked Realm
\* whose changes were delivered.
C2_Witness ==
    \E b \in rejected, ident \in Tracked :
        /\ pc = "idle"
        /\ Len(admin_rows) = MaxRows
        /\ admin_rows[1].id = b
        /\ RealmOf(ident) # b
        /\ Len(delivered[ident]) = 2

\* C3: realm_changed() is never invoked for a Realm whose schema is empty:
\* every delivered notification belongs to a tracked Realm with a non-empty
\* group and carries a version that has a schema.
C3_NoDeliveryBeforeSchema ==
    \A ident \in Idents :
        delivered[ident] # <<>>
        => /\ ident \in Tracked
           /\ ~group_is_empty(version, RealmOf(ident))
           /\ \A k \in 1..Len(delivered[ident]) : delivered[ident][k].new > 0

\* A Realm that was observed (on_regular_change() by on_admin_change()),
\* whose schema is still empty and for which nothing has been delivered.
C3_Witness ==
    \E ident \in Tracked :
        /\ ident \in observed
        /\ group_is_empty(version, RealmOf(ident))
        /\ delivered[ident] = <<>>
        /\ pstate[ident] = "IDLE"
        /\ ~paused

\* ---------------------------------------------------- pipeline claims
\* A step in which the session of tracked slot ident applied a transaction.
Committed(ident) ==
    /\ ident \in Tracked
    /\ version'[RealmOf(ident)] # version[RealmOf(ident)]

SomeCommit == \E id \in Ids : version'[id] # version[id]

\* A resume() that ends a pause.
Resumed == paused /\ ~paused'

LastOf(seq) == seq[Len(seq)]

SlotUnchanged(ident) ==
    /\ pstate'[ident] = pstate[ident]
    /\ pending'[ident] = pending[ident]
    /\ last_delivered'[ident] = last_delivered[ident]
    /\ delivered'[ident] = delivered[ident]

\* C4: while paused, a commit on a tracked Realm invokes realm_changed() for
\* no Realm and leaves the committed Realm's slot PENDING.
C4_PausedCommitBuffers ==
    [][(paused /\ SomeCommit)
       => /\ delivered' = delivered
          /\ \A ident \in Idents :
                 Committed(ident) => pstate'[ident] = "PENDING"]_vars

\* A commit that arrived during the pause after version 1 was delivered:
\* it is buffered and nothing more has been delivered.
C4_Witness ==
    \E ident \in Tracked :
        /\ paused
        /\ delivered[ident] = <<[old |-> <<>>, new |-> 1]>>
        /\ pstate[ident] = "PENDING"
        /\ pending[ident] = <<[old |-> <<1>>, new |-> 2]>>
        /\ version[RealmOf(ident)] = 2

\* C5: resume() invokes realm_changed() exactly once, with the buffered
\* notification, for every PENDING slot and leaves it IDLE and empty; it
\* changes nothing in any other slot, so with nothing pending no slot
\* changes and nothing is delivered.  Outside a pause nothing is pending.
C5_ResumeDeliversOnce ==
    /\ [](~paused => \A ident \in Idents :
                         pstate[ident] = "IDLE" /\ pending[ident] = <<>>)
    /\ [][Resumed
          => \A ident \in Idents :
                 IF pstate[ident] = "PENDING"
                 THEN /\ delivered'[ident] =
                             Append(delivered[ident], pending[ident][1])
                      /\ last_delivered'[ident] = <<pending[ident][1].new>>
                      /\ pending'[ident] = <<>>
                      /\ pstate'[ident] = "IDLE"
                 ELSE SlotUnchanged(ident)]_vars

\* resume() has delivered, in one invocation, a notification that spans two
\* commits, and left every slot IDLE.
C5_Witness ==
    \E ident \in Tracked :
        /\ ~paused
        /\ last_by = "resume"
        /\ delivered[ident] = <<[old |-> <<>>, new |-> 2]>>
        /\ \A other \in Idents : pstate[other] = "IDLE"

\* C6: has_pending() is true exactly when some tracked Realm has a buffered
\* notification; a commit on a tracked Realm during a pause makes it true,
\* it stays true until resume(), and it is false when resume() returns.
C6_HasPending ==
    /\ [](has_pending <=> \E ident \in Tracked : pending[ident] # <<>>)
    /\ [][/\ (paused /\ \E ident \in Idents : Committed(ident))
             => has_pending'
          /\ (has_pending /\ ~Resumed) => has_pending'
          /\ Resumed => ~has_pending']_vars

\* Two tracked Realms during a pause, one of them PENDING and the other
\* IDLE: has_pending() is true.
C6_Witness ==
    \E a \in Tracked, b \in Tracked :
        /\ paused
        /\ has_pending
        /\ pstate[a] = "PENDING"
        /\ pstate[b] = "IDLE"
        /\ delivered[b] # <<>>

\* C7: a slot buffers at most one notification, exactly when it is PENDING,
\* and that notification spans from the slot's last-delivered version to
\* the Realm's newest committed version.
C7_OneBufferedPerRealm ==
    \A ident \in Idents :
        /\ Len(pending[ident]) <= 1
        /\ pstate[ident] = "PENDING" <=> pending[ident] # <<>>
        /\ pending[ident] # <<>>
           => /\ ident \in Tracked
              /\ pending[ident][1].old = last_delivered[ident]
              /\ pending[ident][1].new = version[RealmOf(ident)]

\* One buffered notification that stands for two commits.
C7_Witness ==
    \E ident \in Tracked :
        /\ paused
        /\ pstate[ident] = "PENDING"
        /\ pending[ident] = <<[old |-> <<>>, new |-> 2]>>
        /\ delivered[ident] = <<>>

\* C8: the notifications delivered for one Realm are in commit order and
\* contiguous: each one's old version is the new version of the one before,
\* versions only grow, and once a slot with deliveries is IDLE everything
\* committed has been delivered.
C8_Contiguous ==
    \A ident \in Idents :
        LET log == delivered[ident] IN
        /\ \A k \in 1..Len(log) :
               /\ k > 1 => log[k].old = <<log[k - 1].new>>
               /\ log[k].old # <<>> => log[k].old[1] < log[k].new
        /\ log # <<>>
           => /\ last_delivered[ident] = <<LastOf(log).new>>
              /\ pstate[ident] = "IDLE"
                 => LastOf(log).new = version[RealmOf(ident)]

\* Two consecutive notifications, the second one delivered by resume().
C8_Witness ==
    \E ident \in Tracked :
        /\ delivered[ident] = <<[old |-> <<>>, new |-> 1],
                                [old |-> <<1>>, new |-> 2]>>
        /\ last_by = "resume"

\* C9: outside a pause, a commit on a tracked Realm invokes realm_changed()
\* exactly once for that Realm, with the committed version as its new
\* version, and leaves the slot IDLE with that version last delivered; no
\* other slot is touched.
C9_CommitDelivers ==
    [][(~paused /\ SomeCommit)
       => \A ident \in Idents :
              IF Committed(ident)
              THEN /\ Len(delivered'[ident]) = Len(delivered[ident]) + 1
                   /\ LastOf(delivered'[ident]).new = version'[RealmOf(ident)]
                   /\ LastOf(delivered'[ident]).old = last_delivered[ident]
                   /\ last_delivered'[ident] = <<version'[RealmOf(ident)]>>
                   /\ pstate'[ident] = "IDLE"
              ELSE SlotUnchanged(ident)]_vars

\* Two successive commits outside a pause, two invocations.
C9_Witness ==
    \E ident \in Tracked :
        /\ ~paused
        /\ last_by = "commit"
        /\ version[RealmOf(ident)] = 2
        /\ Len(delivered[ident]) = 2
        /\ pstate[ident] = "IDLE"

\* C10: of the notifications delivered for one Realm the first, and only
\* the first, has no old snapshot; every one has a new snapshot of a Realm
\* with a schema.
C10_OnlyFirstWithoutOld ==
    \A ident \in Idents :
        \A k \in 1..Len(delivered[ident]) :
            /\ delivered[ident][k].old = <<>> <=> k = 1
            /\ delivered[ident][k].new > 0

\* A first notification delivered by the call that announces the slot (the
\* Realm already had a schema), followed by a second one.
C10_Witness ==
    \E ident \in Tracked :
        /\ Len(delivered[ident]) = 2
        /\ delivered[ident][1] = [old |-> <<>>, new |-> 1]
        /\ delivered[ident][2].old = <<1>>
        /\ last_by = "commit"
        /\ paused

\* ------------------------------------------------ listen_ident claims
\* C11: a listen_ident is never bound to two different Realm ids: all the
\* sessions whose sync_transact_callback captured one listen_ident value,
\* those of attempts the catch block aborted included, belong to one id.
C11_IdentBoundToOneId ==
    \A x \in bound, y \in bound : x.ident = y.ident => x.id = y.id

\* ------------------------------------------------------ accessor claims
RegistryUnchanged ==
    /\ m_listen_entries' = m_listen_entries
    /\ m_known_realms' = m_known_realms
    /\ m_next_listen_ident' = m_next_listen_ident

\* The name filter_callback() accepted when the entry of ident was created.
NameFiltered(ident) ==
    {b.name : b \in {x \in bound : /\ x.ident = ident
                                   /\ x.id = RealmOf(ident)}}

\* C12: for every listen_ident value, get_realm_name() and get_realm() throw
\* exactly when the ident has no listen entry; get_realm_name() of a tracked
\* ident returns the name that was passed to filter_callback() when the
\* entry was created; neither call changes m_listen_entries, m_known_realms
\* or m_next_listen_ident.
C12_UnknownListener ==
    /\ [](acc # <<>>
          => /\ acc[1].throws <=> acc[1].ident \notin Tracked
             /\ acc[1].throws => acc[1].name = <<>> /\ acc[1].realm = <<>>
             /\ (acc[1].op = "get_realm_name" /\ ~acc[1].throws)
                => /\ Len(acc[1].name) = 1
                   /\ NameFiltered(acc[1].ident) = {acc[1].name[1]})
    /\ [][acc' # <<>> => RegistryUnchanged]_vars

\* get_realm() has just failed for the ident that would be handed out next,
\* while the first listener slot is in use.
C12_Witness ==
    /\ acc # <<>>
    /\ acc[1].op = "get_realm"
    /\ acc[1].throws
    /\ acc[1].ident = m_next_listen_ident
    /\ Tracked = {0}

\* C13: get_realm() of a tracked listen_ident returns null exactly while the
\* Realm's local replica has no schema, and otherwise the Realm of the
\* entry's realm_id as it is now; the call changes none of
\* m_listen_entries, m_known_realms and m_next_listen_ident.
C13_NullUntilSchema ==
    /\ []((acc # <<>> /\ acc[1].op = "get_realm" /\ acc[1].ident \in Tracked)
          => /\ ~acc[1].throws
             /\ acc[1].realm = <<>> <=> version[RealmOf(acc[1].ident)] = 0
             /\ acc[1].realm # <<>>
                => acc[1].realm =
                       <<[realm_id |-> RealmOf(acc[1].ident),
                          version |-> version[RealmOf(acc[1].ident)]]>>)
    /\ [][(acc' # <<>> /\ acc'[1].op = "get_realm") => RegistryUnchanged]_vars

\* get_realm() has just returned null for one tracked Realm, whose replica
\* is still empty, while the other tracked Realm has a schema.
C13_Witness ==
    \E ident \in Tracked, other \in Tracked :
        /\ acc # <<>>
        /\ acc[1].op = "get_realm"
        /\ acc[1].ident = ident
        /\ acc[1].realm = <<>>
        /\ version[RealmOf(ident)] = 0
        /\ version[RealmOf(other)] > 0

\* ------------------------------------------- failure claims (the catch block)
\* A step in which the catch block of on_admin_change() ran.
Caught == failures' # failures

EntryIds == {m_listen_entries[k].realm_id : k \in DOMAIN m_listen_entries}

\* The first row of RealmFile that holds id (0 when there is none).
FirstRowOf(id) ==
    IF \E j \in 1..Len(admin_rows) : admin_rows[j].id = id
    THEN CHOOSE j \in 1..Len(admin_rows) :
             /\ admin_rows[j].id = id
             /\ \A h \in 1..(j - 1) : admin_rows[h].id # id
    ELSE 0

\* The latest attempt on id ended in the catch block.
FailedLast(id) == failures[id] > 0 /\ id \notin m_known_realms

\* C14: when a step between reading the ident and inserting the entry
\* throws for a new id, on_admin_change() ends with the exception, the id is
\* not in m_known_realms, there is no listen entry for it and
\* m_next_listen_ident is what it was; until the id is tried again it stays
\* out of m_known_realms with every row before its row known, so the next
\* cycle reaches its row, and a cycle that reaches the row of an unknown id
\* makes a new attempt on it (filter_callback() or the catch block runs).
C14_FailureRollsBack ==
    /\ [][Caught
          => /\ pc' = "idle"
             /\ last_error' \in CatchErrors
             /\ failures'[CurRow.id] = failures[CurRow.id] + 1
             /\ CurRow.id \notin m_known_realms'
             /\ m_listen_entries' = m_listen_entries
             /\ m_next_listen_ident' = m_next_listen_ident]_vars
    /\ [](\A id \in Ids :
              FailedLast(id)
              => /\ id \notin EntryIds
                 /\ \A j \in 1..(FirstRowOf(id) - 1) :
                        admin_rows[j].id \in m_known_realms)
    /\ [][(pc = "row" /\ CurRow.id \notin m_known_realms
                      /\ <<pc, row_i>>' # <<pc, row_i>>)
          => \/ filter_calls'[CurRow.id] = filter_calls[CurRow.id] + 1
             \/ failures'[CurRow.id] = failures[CurRow.id] + 1]_vars

\* on_admin_change() has just ended with the exception of a failed
\* emplace() for the second row, whose session had been created with
\* listen_ident 1: the first row's entry holds ident 0, the second id is
\* out of m_known_realms and ident 1 has not been consumed.
C14_Witness ==
    \E id \in Ids :
        /\ pc = "idle"
        /\ last_error = "failure"
        /\ failures[id] = 1
        /\ id \notin m_known_realms
        /\ \E b \in bound : b.id = id /\ b.ident = 1
        /\ Tracked = {0}
        /\ m_next_listen_ident = 1

\* A step in which an exception leaves on_admin_change().
Aborted == pc # "idle" /\ pc' = "idle" /\ last_error' # "none"

\* The ids of the rows up to and including row i.
IdsUpTo(i) == {admin_rows[j].id : j \in 1..i}

\* C15: when an exception leaves on_admin_change() at row i, what was done
\* for the rows before i stays: their ids are in m_known_realms, every
\* listen entry (those made in this cycle included) is still there with its
\* ident, and the on_regular_change() calls made for them are not undone;
\* the rows after i have not been touched in this cycle: their ids are in
\* m_known_realms only if they were when the loop was entered and
\* filter_callback() has not been invoked for them since.  The loop visits
\* the rows in order, one at a time, and each step changes m_known_realms
\* and the filter_callback() count of the current row's id only.
C15_AbortKeepsEarlierRows ==
    /\ [][Aborted
          => /\ \A j \in 1..(row_i - 1) :
                    admin_rows[j].id \in m_known_realms'
             /\ \A k \in DOMAIN m_listen_entries :
                    /\ k \in DOMAIN m_listen_entries'
                    /\ m_listen_entries'[k] = m_listen_entries[k]
             /\ \A k \in at_enter[1].next..(m_next_listen_ident - 1) :
                    /\ k \in DOMAIN m_listen_entries'
                    /\ k \in observed'
             /\ m_next_listen_ident' >= m_next_listen_ident
             /\ observed \subseteq observed'
             /\ delivered' = delivered
             /\ \A id \in Ids \ IdsUpTo(row_i) :
                    /\ id \in m_known_realms' <=> id \in at_enter[1].known
                    /\ filter_calls'[id] = at_enter[1].filter_calls[id]]_vars
    /\ [][pc # "idle"
          => /\ row_i' \in {row_i, row_i + 1, 0}
             /\ \A id \in Ids \ {CurRow.id} :
                    /\ id \in m_known_realms' <=> id \in m_known_realms
                    /\ filter_calls'[id] = filter_calls[id]]_vars

\* on_admin_change() has just been left by an exception at the second row:
\* the first row's Realm, accepted in the same cycle, keeps its entry and
\* its ident, and the second row's id is out of m_known_realms.
C15_Witness ==
    /\ pc = "idle"
    /\ last_error = "failure"
    /\ at_enter # <<>>
    /\ at_enter[1].known = {}
    /\ at_enter[1].next = 0
    /\ Len(admin_rows) = MaxRows
    /\ Tracked = {0}
    /\ RealmOf(0) = admin_rows[1].id
    /\ 0 \in observed
    /\ admin_rows[2].id \notin m_known_realms
    /\ failures[admin_rows[2].id] = 1

\* ------------------------------------------------------- start() claims
\* A step of start().
Started == starts' # starts

\* Nothing has been called back and nothing is known or tracked.
Untouched ==
    /\ m_known_realms = {}
    /\ m_listen_entries = <<>>
    /\ m_next_listen_ident = 0
    /\ \A id \in Ids : filter_calls[id] = 0 /\ version[id] = 0
    /\ observed = {}
    /\ bound = {}
    /\ \A ident \in Idents : delivered[ident] = <<>> /\ pending[ident] = <<>>

C19_NothingBeforeStart ==
    starts = 0
    => /\ m_admin_realm_sync_session = "null"
       /\ admin_schema = "empty"
       /\ admin_rows = <<>>
       /\ Sessions = {}
       /\ Untouched

\* start() has not been called and the server already holds MaxRows Realms.
C19_Witness ==
    /\ starts = 0
    /\ Len(server_rows) = MaxRows
    /\ m_admin_realm_sync_session = "null"

\* ------------------------------------- the call after the try block
\* A step in which a listen entry is inserted.
Inserted == m_listen_entries' # m_listen_entries

\* C20: the step of on_admin_change() that inserts the listen entry of an
\* accepted Realm calls on_regular_change() once, with the ident just
\* consumed and with the entry already in place (a Realm that has a schema
\* by then is delivered in that very step), whether or not its session has
\* committed anything; on_admin_change() makes no such call in any other
\* step, in particular not for a rejected Realm or in the catch block.
C20_ObservedOnInsert ==
    /\ [](observed = Tracked)
    /\ [][Inserted
          => /\ pc = "bound"
             /\ m_next_listen_ident \notin observed
             /\ observed' = observed \cup {m_next_listen_ident}
             /\ DOMAIN m_listen_entries' =
                    DOMAIN m_listen_entries \cup {m_next_listen_ident}
             /\ m_listen_entries'[m_next_listen_ident].realm_id = CurRow.id
             /\ m_next_listen_ident' = m_next_listen_ident + 1
             /\ (version[CurRow.id] > 0 /\ ~paused /\ last_error' = last_error)
                => delivered'[m_next_listen_ident] =
                       <<[old |-> <<>>, new |-> version[CurRow.id]]>>]_vars
    /\ [][observed' # observed => Inserted]_vars
    /\ [][(rejected' # rejected \/ Caught) => observed' = observed]_vars

\* The second row's Realm was accepted and its slot announced while its
\* replica is still empty; the first row's Realm was rejected.
C20_Witness ==
    /\ pc = "idle"
    /\ Len(admin_rows) = MaxRows
    /\ admin_rows[1].id \in rejected
    /\ Tracked = {0}
    /\ RealmOf(0) = admin_rows[2].id
    /\ observed = {0}
    /\ version[RealmOf(0)] = 0
    /\ TotalFailures = 0

\* The operations that are executing on the registry: on_admin_change()
\* between its entry and its return, and every accessor call under way.
Active ==
    reading \cup (IF pc # "idle"
                  THEN {[op |-> "on_admin_change", ident |-> 0,
                         thread |-> "loop"]}
                  ELSE {})

C21_OnlySessionFailureRemoves ==
    [][/\ \A id \in m_known_realms \ m_known_realms' :
              Caught /\ last_error' = "failure"
       /\ (Caught /\ last_error' = "filter_failure")
          => CurRow.id \in m_known_realms']_vars

\* C21 (amended): an id leaves m_known_realms only in the catch block, which
\* runs for every exception thrown between the insertion of the id and the
\* insertion of its entry (the copy of the name, filter_callback() itself,
\* the creation of the session, emplace()) and erases the id of the current
\* row only; every other step keeps all ids and adds at most the current
\* row's id, and a failure of the target's on_regular_change() after the
\* entry was inserted keeps the id.
C21_OnlyCatchRemoves ==
    /\ [][IF Caught
          THEN /\ m_known_realms' = m_known_realms \ {CurRow.id}
               /\ last_error' \in CatchErrors
          ELSE /\ m_known_realms \subseteq m_known_realms'
               /\ \A id \in m_known_realms' \ m_known_realms :
                      pc = "row" /\ id = CurRow.id]_vars
    /\ [][(pc # "idle" /\ last_error' = "target_failure")
          => /\ CurRow.id \in m_known_realms'
             /\ m_known_realms' = m_known_realms]_vars

\* filter_callback() has thrown for the second row's id: the catch block
\* took the id out of m_known_realms, the first row's id is still there.
C21_Witness ==
    \E id \in Ids :
        /\ pc = "idle"
        /\ last_error = "filter_failure"
        /\ failures[id] = 1
        /\ filter_calls[id] = 1
        /\ id \notin m_known_realms
        /\ m_known_realms # {}

\* --------------------------------------------- the admin Realm's schema
\* C22: on an admin Realm whose group is not empty but has no RealmFile
\* table, or no id or path column, on_admin_change() ends with the
\* "Unexpected schema" error before it looks at any row; on an empty group
\* it returns normally.  In both cases m_known_realms, m_listen_entries and
\* m_next_listen_ident stay as they were and neither filter_callback() nor
\* on_regular_change() is invoked.
C22_SchemaViolation ==
    /\ [][(admin_schema = "empty" \/ admin_schema = "bad")
          => /\ pc = "idle"
             /\ pc' = "idle"
             /\ m_known_realms' = m_known_realms
             /\ m_listen_entries' = m_listen_entries
             /\ m_next_listen_ident' = m_next_listen_ident
             /\ filter_calls' = filter_calls
             /\ observed' = observed
             /\ delivered' = delivered]_vars
    /\ [][(last_error' # last_error /\ last_error' = "SchemaViolation")
          => admin_schema = "bad" /\ admin_schema' = "bad"]_vars
    /\ [](admin_schema = "empty" => last_error = "none")
    /\ [](admin_schema = "bad" => last_error \in {"none", "SchemaViolation"})

\* on_admin_change() has ended with the schema error on an admin Realm that
\* still lacks the table: nothing is known or tracked, nothing was called.
C22_Witness ==
    /\ admin_schema = "bad"
    /\ last_error = "SchemaViolation"
    /\ pc = "idle"
    /\ m_known_realms = {}
    /\ m_listen_entries = <<>>
    /\ m_next_listen_ident = 0
    /\ \A id \in Ids : filter_calls[id] = 0
    /\ observed = {}

\* ------------------------------------------------ the listen_idents
\* C23: whenever an on_admin_change() step has completed, the keys of
\* m_listen_entries are exactly 0 .. m_next_listen_ident - 1; the counter
\* moves only by one, in the step that inserts the entry under the value it
\* had; a rejected Realm and a failed attempt consume no ident; and an
\* entry, once inserted, is never removed or changed.
C23_IdentsDense ==
    /\ [](Tracked = 0..(m_next_listen_ident - 1))
    /\ [][/\ m_next_listen_ident' \in
                 {m_next_listen_ident, m_next_listen_ident + 1}
          /\ \A k \in Tracked :
                 /\ k \in DOMAIN m_listen_entries'
                 /\ m_listen_entries'[k] = m_listen_entries[k]
          /\ (m_next_listen_ident' # m_next_listen_ident \/ Inserted)
             => /\ pc = "bound"
                /\ DOMAIN m_listen_entries' =
                       Tracked \cup {m_next_listen_ident}
                /\ m_listen_entries'[m_next_listen_ident].realm_id =
                       CurRow.id
                /\ m_next_listen_ident' = m_next_listen_ident + 1
          /\ (rejected' # rejected \/ Caught)
             => /\ m_next_listen_ident' = m_next_listen_ident
                /\ m_listen_entries' = m_listen_entries]_vars

\* The first row's Realm was rejected and the second one's first attempt
\* failed; its second attempt got ident 0, the only ident handed out.
C23_Witness ==
    /\ pc = "idle"
    /\ Len(admin_rows) = MaxRows
    /\ admin_rows[1].id \in rejected
    /\ failures[admin_rows[2].id] = 1
    /\ Tracked = {0}
    /\ RealmOf(0) = admin_rows[2].id
    /\ m_next_listen_ident = 1

\* ------------------------------------------------ one entry per Realm
\* get_local_path(): the file name is realm_id + ".realm" in the directory
\* of the regular Realms.
get_local_path(realm_id) == <<realm_id, ".realm">>

\* C24: in every state, and so whenever on_admin_change() has returned or
\* failed, the realm_id of every listen entry is in m_known_realms and no
\* two entries have the same realm_id; hence no two sessions are for the
\* same Realm and no two entries have the same local path, also when
\* RealmFile has several rows with one id or an id is tried again after a
\* failed attempt.
C24_OneEntryPerRealm ==
    /\ \A k \in Tracked : RealmOf(k) \in m_known_realms
    /\ \A k1 \in Tracked, k2 \in Tracked :
           (\/ RealmOf(k1) = RealmOf(k2)
            \/ get_local_path(RealmOf(k1)) = get_local_path(RealmOf(k2)))
           => k1 = k2
    /\ \A s1 \in Sessions, s2 \in Sessions : s1.id = s2.id => s1 = s2

\* RealmFile has two rows with the same id; the first attempt on it
\* failed, the second made the only entry, and a cycle that was entered
\* after that has returned.
C24_Witness ==
    /\ pc = "idle"
    /\ last_error = "none"
    /\ Len(admin_rows) = MaxRows
    /\ admin_rows[1].id = admin_rows[2].id
    /\ failures[admin_rows[1].id] = 1
    /\ Tracked = {0}
    /\ RealmOf(0) = admin_rows[1].id
    /\ at_enter # <<>>
    /\ at_enter[1].next = 1

\* ----------------------------- callbacks of a session not yet entered
\* C25: every on_regular_change(listen_ident) that a session's
\* sync_transact_callback makes, the first one after the session was bound
\* included, comes after the listen entry of that ident was inserted: a
\* step in which a session applies a transaction and calls back belongs to
\* a Realm that has an entry in m_listen_entries.
C25_NotifiedOnlyAfterInsert ==
    [][\A id \in Ids :
           version'[id] # version[id]
           => \E k \in Tracked : RealmOf(k) = id]_vars

\* ------------------------------------------------ a cycle is complete
\* A step in which on_admin_change() returns normally from its loop.
Returned == pc # "idle" /\ pc' = "idle" /\ last_error' = "none"

\* A step of on_admin_change()'s loop.
LoopStep == pc # "idle" /\ <<pc, row_i>>' # <<pc, row_i>>

\* C26: when on_admin_change() returns normally, the id of every row of the
\* snapshot it read (rows 1 .. n) is in m_known_realms, and each of them
\* that filter_callback() did not reject has a listen entry, however many
\* rows were added before the call.  A call that finds every row's id known
\* only skips rows: none of its steps changes m_known_realms, the entries
\* or the ident counter or makes a callback, and it returns with
\* m_known_realms, the counter and the filter_callback() counts as they
\* were when it entered.
C26_ReturnCoversSnapshot ==
    /\ [][Returned
          => /\ \A j \in 1..row_n :
                    /\ admin_rows[j].id \in m_known_realms'
                    /\ admin_rows[j].id \notin rejected'
                       => admin_rows[j].id \in EntryIds'
             /\ IdsUpTo(row_n) \subseteq at_enter[1].known
                => /\ m_known_realms' = at_enter[1].known
                   /\ m_next_listen_ident' = at_enter[1].next
                   /\ filter_calls' = at_enter[1].filter_calls]_vars
    /\ [][(LoopStep /\ pc = "row" /\ CurRow.id \in m_known_realms)
          => /\ m_known_realms' = m_known_realms
             /\ m_listen_entries' = m_listen_entries
             /\ m_next_listen_ident' = m_next_listen_ident
             /\ filter_calls' = filter_calls
             /\ observed' = observed
             /\ delivered' = delivered
             /\ rejected' = rejected
             /\ failures' = failures
             /\ last_error' = "none"]_vars

\* Two Realms were added before on_admin_change() was called; the one call
\* found both, made both entries, and returned.
C26_Witness ==
    /\ pc = "idle"
    /\ last_error = "none"
    /\ at_enter # <<>>
    /\ at_enter[1].known = {}
    /\ at_enter[1].next = 0
    /\ Len(admin_rows) = MaxRows
    /\ m_known_realms = Ids
    /\ EntryIds = Ids
    /\ TotalFailures = 0

\* --------------------------------- the target's callback fails (138)
\* A step in which the target's on_regular_change() throws out of
\* on_admin_change().
TargetFailed == pc # "idle" /\ last_error' = "target_failure"

\* C27: when the on_regular_change() call after the try block throws,
\* on_admin_change() ends with that exception and leaves the rows after the
\* current one untouched, while the entry just inserted, the ident it
\* consumed and the id's place in m_known_realms stay.  A Realm that has a
\* listen entry is never tried again: no step invokes filter_callback() for
\* it, runs the catch block for it, takes it out of m_known_realms or
\* inserts another entry for it.
C27_TargetFailureKeepsEntry ==
    /\ [][TargetFailed
          => /\ pc = "bound"
             /\ pc' = "idle"
             /\ DOMAIN m_listen_entries' = Tracked \cup {m_next_listen_ident}
             /\ m_listen_entries'[m_next_listen_ident].realm_id = CurRow.id
             /\ m_next_listen_ident' = m_next_listen_ident + 1
             /\ m_known_realms' = m_known_realms
             /\ CurRow.id \in m_known_realms'
             /\ m_next_listen_ident \in observed'
             /\ \A id \in Ids \ IdsUpTo(row_i) :
                    /\ id \in m_known_realms' <=> id \in at_enter[1].known
                    /\ filter_calls'[id] = at_enter[1].filter_calls[id]]_vars
    /\ [][\A id \in EntryIds :
              /\ id \in m_known_realms'
              /\ filter_calls'[id] = filter_calls[id]
              /\ failures'[id] = failures[id]
              /\ id \in EntryIds']_vars
    /\ [][Inserted => CurRow.id \notin EntryIds]_vars

\* The target's callback has thrown for the first row's Realm: its entry,
\* ident 0 and its id in m_known_realms are there, and the second row has
\* not been looked at.
C27_Witness ==
    /\ pc = "idle"
    /\ last_error = "target_failure"
    /\ Len(admin_rows) = MaxRows
    /\ Tracked = {0}
    /\ RealmOf(0) = admin_rows[1].id
    /\ m_next_listen_ident = 1
    /\ 0 \in observed
    /\ m_known_realms = {admin_rows[1].id}
    /\ admin_rows[2].id # admin_rows[1].id
    /\ filter_calls[admin_rows[2].id] = 0

====
